---- MODULE Spec2Model ----
(***************************************************************************)
(* diff_pdf_visually/diff.py: pdftopng, imgdiff and pdfdiff.               *)
(*                                                                         *)
(* Python str values are sequences of one-character strings, so that       *)
(* startswith, "in", strip, slicing and the order used by sorted() are     *)
(* computed as the interpreter computes them.  Python float values are     *)
(* records [inf, v] with v counted in tenths (3.2 is v = 32).              *)
(***************************************************************************)
EXTENDS Integers, Sequences, FiniteSets, TLC

\* ------------------------------------------------------------------ bounds
\* num_threads ranges over 1..MaxThreads
MaxThreads == 2
\* time_to_inspect ranges over 0..MaxInspect
MaxInspect == 1

\* --------------------------------------------------------------- str model
\* ord() of the characters that occur in file names
Ord(c) ==
    CASE c = "-" -> 45
      [] c = "." -> 46
      [] c = "0" -> 48
      [] c = "1" -> 49
      [] c = "2" -> 50
      [] c = "a" -> 97
      [] c = "b" -> 98
      [] c = "g" -> 103
      [] c = "n" -> 110
      [] c = "p" -> 112

\* variant: shorter names first, the order of unpadded decimal numbers
StrLessNumeric(s, t) ==
    \/ Len(s) < Len(t)
    \/ /\ Len(s) = Len(t)
       /\ \E i \in 1..Len(t) :
            /\ \A j \in 1..(i - 1) : s[j] = t[j]
            /\ Ord(s[i]) < Ord(t[i])

\* str.__lt__: the first differing character decides, a proper prefix is less
StrLess(s, t) ==
    \E i \in 1..(Len(t)) :
        /\ \A j \in 1..(i - 1) : j <= Len(s) /\ s[j] = t[j]
        /\ \/ i = Len(s) + 1
           \/ i <= Len(s) /\ Ord(s[i]) < Ord(t[i])

\* str.startswith
StartsWith(s, p) ==
    /\ Len(p) <= Len(s)
    /\ SubSeq(s, 1, Len(p)) = p

\* str.endswith
EndsWith(s, p) ==
    /\ Len(p) <= Len(s)
    /\ SubSeq(s, Len(s) - Len(p) + 1, Len(s)) = p

\* the "in" operator on two str values
Contains(s, p) ==
    \E i \in 0..(Len(s) - Len(p)) : SubSeq(s, i + 1, i + Len(p)) = p

Whitespace == {" ", "\n"}

RECURSIVE LStrip(_)
LStrip(s) ==
    IF s # <<>> /\ Head(s) \in Whitespace THEN LStrip(Tail(s)) ELSE s

RECURSIVE RStrip(_)
RStrip(s) ==
    IF s # <<>> /\ s[Len(s)] \in Whitespace
    THEN RStrip(SubSeq(s, 1, Len(s) - 1))
    ELSE s

\* str.strip
Strip(s) == RStrip(LStrip(s))

\* sorted() of a set of str values
RECURSIVE Sorted(_)
Sorted(S) ==
    IF S = {} THEN <<>>
    ELSE LET m == CHOOSE x \in S : \A y \in S \ {x} : StrLess(x, y)
         IN  <<m>> \o Sorted(S \ {m})

\* ------------------------------------------------------------- float model
INFINITY == [inf |-> TRUE, v |-> 0]

Num(n) == [inf |-> FALSE, v |-> n]

\* x <= y on floats
FloatLeq(x, y) ==
    \/ y.inf
    \/ ~x.inf /\ x.v <= y.v

Digits == {"0", "1", "2", "3", "4", "5", "6", "7", "8", "9"}

DigitVal(c) ==
    CASE c = "0" -> 0 [] c = "1" -> 1 [] c = "2" -> 2 [] c = "3" -> 3
      [] c = "4" -> 4 [] c = "5" -> 5 [] c = "6" -> 6 [] c = "7" -> 7
      [] c = "8" -> 8 [] c = "9" -> 9

RECURSIVE IntVal(_)
IntVal(s) ==
    IF s = <<>> THEN 0
    ELSE 10 * IntVal(SubSeq(s, 1, Len(s) - 1)) + DigitVal(s[Len(s)])

AllDigits(s) == \A i \in 1..Len(s) : s[i] \in Digits

\* float(s) for the texts "inf", "<digits>" and "<digits>.<digit>"; any other
\* text of the logs below is one float() rejects
FloatOk(s) ==
    \/ s = <<"i", "n", "f">>
    \/ Len(s) >= 1 /\ AllDigits(s)
    \/ /\ Len(s) >= 3
       /\ s[Len(s) - 1] = "."
       /\ AllDigits(SubSeq(s, 1, Len(s) - 2))
       /\ s[Len(s)] \in Digits

Float(s) ==
    IF s = <<"i", "n", "f">> THEN INFINITY
    ELSE IF AllDigits(s) THEN Num(10 * IntVal(s))
    ELSE Num(10 * IntVal(SubSeq(s, 1, Len(s) - 2)) + DigitVal(s[Len(s)]))

\* min(significances, default=INFINITY)
RECURSIVE Min(_)
Min(seq) ==
    IF seq = <<>> THEN INFINITY
    ELSE LET rest == Min(Tail(seq))
         IN  IF FloatLeq(Head(seq), rest) THEN Head(seq) ELSE rest

\* ---------------------------------------------------------- the workspace
\* The temporary directory is the set of the names of the files in it.
PNG == <<".", "p", "n", "g">>

TXT == <<".", "t", "x", "t">>

\* the two calls of pdftopng, named by their basename ("a" and "b")
Tasks == {"a", "b"}

Basename(t) == <<t>>

\* Page indices pdftocairo may put in a file name.  The tool is external: the
\* index is an opaque string and is not known to be zero-padded.
PageIds == {<<"1">>, <<"2">>, <<"1", "0">>}

\* the file pdftocairo writes for one page: <destdir/basename>-<index>.png
PageFile(basename, id) == basename \o <<"-">> \o id \o PNG

\* p / "a-{}.png".format(pageno), and likewise for b
PagePath(t, pageno) == <<t, "-">> \o pageno \o PNG

\* variant: one diff file for all pages, p / "diff.png"
DiffPathFixed(pageno) == <<"d", "i", "f", "f">> \o PNG

\* p / "diff-{}.png".format(pageno)
DiffPath(pageno) == <<"d", "i", "f", "f", "-">> \o pageno \o PNG

\* p / "log-{}.txt".format(pageno)
LogPath(pageno) == <<"l", "o", "g", "-">> \o pageno \o TXT

\* A document, as far as pdftocairo shows it: the page files it writes and
\* its exit status.  A failing run may have written some files already.
Docs == [ids : SUBSET PageIds, returncode : {0, 1}]

\* ---------------------------------------------------------------- pdftopng
\* variant: destdir.glob(basename + '*' + '.png')
GlobPrefixPngOnly(dir, basename) ==
    {f \in dir : /\ Len(f) >= Len(basename) + 4
                 /\ SubSeq(f, 1, Len(basename)) = basename
                 /\ SubSeq(f, Len(f) - 3, Len(f)) = <<".", "p", "n", "g">>}

\* variant: destdir.glob('*')
GlobPrefixAll(dir, basename) == dir

\* destdir.glob(basename + '*')
GlobPrefix(dir, basename) == {f \in dir : StartsWith(f, basename)}

\* variant: destdir.glob('*.png')
GlobPngAny(dir, basename) == {f \in dir : EndsWith(f, PNG)}

\* destdir.glob(basename + '*' + '.png')
GlobPng(dir, basename) ==
    {f \in dir : /\ Len(f) >= Len(basename) + Len(PNG)
                 /\ StartsWith(f, basename)
                 /\ EndsWith(f, PNG)}

\* s[len(basename)+1:-4]
PageIdOf(s, basename) == SubSeq(s, Len(basename) + 2, Len(s) - 4)

\* the value pdftopng returns, computed from the directory after the tool ran
PdftopngResult(dir, basename) ==
    LET numbers == Sorted(GlobPng(dir, basename))
    IN  [i \in 1..Len(numbers) |-> PageIdOf(numbers[i], basename)]

\* ----------------------------------------------------------------- imgdiff
\* '    all: '
PREF == <<" ", " ", " ", " ", "a", "l", "l", ":", " ">>

\* 'image widths or heights differ'
MISMATCH ==
    <<"i", "m", "a", "g", "e", " ", "w", "i", "d", "t", "h", "s", " ",
      "o", "r", " ", "h", "e", "i", "g", "h", "t", "s", " ",
      "d", "i", "f", "f", "e", "r">>

\* Lines the compare tool writes to the log (readlines keeps the newline).
\* '    red: 0\n'
LineRed == <<" ", " ", " ", " ", "r", "e", "d", ":", " ", "0", "\n">>

\* '    all: 0\n'
LineAllZero == <<" ", " ", " ", " ", "a", "l", "l", ":", " ", "0", "\n">>

\* '    all: 0.0\n'
LineAllZeroDot ==
    <<" ", " ", " ", " ", "a", "l", "l", ":", " ", "0", ".", "0", "\n">>

\* '    all: 3.2\n'
LineAllLow ==
    <<" ", " ", " ", " ", "a", "l", "l", ":", " ", "3", ".", "2", "\n">>

\* '    all: 10\n'
LineAllHigh == <<" ", " ", " ", " ", "a", "l", "l", ":", " ", "1", "0", "\n">>

\* '    all: inf\n'
LineAllInf ==
    <<" ", " ", " ", " ", "a", "l", "l", ":", " ", "i", "n", "f", "\n">>

\* '    all: 3.2 (0.3)\n'
LineAllParen ==
    <<" ", " ", " ", " ", "a", "l", "l", ":", " ", "3", ".", "2", " ",
      "(", "0", ".", "3", ")", "\n">>

\* 'compare: image widths or heights differ\n'
LineMismatch ==
    <<"c", "o", "m", "p", "a", "r", "e", ":", " "
    >> \o MISMATCH \o <<"\n">>

\* The logs the compare tool may leave: with one "all" line, with none, with
\* two, with the mismatch message, with the message and an "all" line.
ScoreLogs ==
    { <<LineRed, LineAllZero>>,
      <<LineRed, LineAllZeroDot>>,
      <<LineRed, LineAllLow>>,
      <<LineRed, LineAllHigh>>,
      <<LineRed, LineAllInf>> }

Logs ==
    ScoreLogs \cup
    { <<LineRed, LineAllParen>>,
      <<>>,
      <<LineRed>>,
      <<LineAllZero, LineAllLow>>,
      <<LineMismatch>>,
      <<LineMismatch, LineRed, LineAllLow>> }

\* exit statuses of the compare tool: same, differ, error
Returncodes == {0, 1, 2}

NoValue == Num(0)

Return(x) == [exc |-> "none", val |-> x]

Raise(e) == [exc |-> e, val |-> NoValue]

\* variant: every non-zero status taken for a crash
CrashedNonZero(returncode) == returncode > 0

\* cmdresult.returncode > 1
Crashed(returncode) == returncode > 1

\* variant: the mismatch message is never recognised
DimensionsDifferIgnored(lines) == FALSE

\* any('image widths or heights differ' in l for l in lines)
DimensionsDiffer(lines) ==
    \E i \in 1..Len(lines) : Contains(lines[i], MISMATCH)

\* [l for l in lines if l.startswith(PREF)]
AllLines(lines) == SelectSeq(lines, LAMBDA l : StartsWith(l, PREF))

\* variant: without the special case for '0'
AllNumNoSentinel(all_str) ==
    IF FloatOk(all_str) THEN Return(Float(all_str))
    ELSE Raise("ValueError: could not convert string to float")

\* INFINITY if all_str == '0' else float(all_str)
AllNum(all_str) ==
    IF all_str = <<"0">> THEN Return(INFINITY)
    ELSE IF FloatOk(all_str) THEN Return(Float(all_str))
    ELSE Raise("ValueError: could not convert string to float")

\* variant: the log read before the exit status is looked at
ImgdiffParseLogFirst(returncode, lines) ==
    IF DimensionsDiffer(lines)
    THEN Raise("ValueError: image widths or heights differ")
    ELSE IF Crashed(returncode) THEN Raise("ValueError: compare crashed")
    ELSE LET all_line == AllLines(lines)
         IN  IF Len(all_line) # 1 THEN Raise("AssertionError")
             ELSE AllNum(Strip(SubSeq(all_line[1], Len(PREF) + 1,
                                      Len(all_line[1]))))

\* imgdiff from the tool's exit on: the value returned or the exception raised
ImgdiffParse(returncode, lines) ==
    IF Crashed(returncode) THEN Raise("ValueError: compare crashed")
    ELSE IF DimensionsDiffer(lines)
    THEN Raise("ValueError: image widths or heights differ")
    ELSE LET all_line == AllLines(lines)
         IN  IF Len(all_line) # 1 THEN Raise("AssertionError")
             ELSE AllNum(Strip(SubSeq(all_line[1], Len(PREF) + 1,
                                      Len(all_line[1]))))

\* the four assertions imgdiff starts with
ImgdiffPre(dir, a, b, diff, log) ==
    /\ a \in dir
    /\ b \in dir
    /\ diff \notin dir
    /\ log \notin dir

\* ------------------------------------------------------------------ state
VARIABLES
    isfile,            \* os.path.isfile of the two arguments a and b
    doc,               \* what pdftocairo makes of a and of b
    threshold,         \* arguments of pdfdiff
    verbosity,
    time_to_inspect,
    num_threads,
    pc,                \* where pdfdiff is
    tmpdir,            \* "absent", "exists" or "deleted"
    files,             \* names of the files in the temporary directory
    future,            \* per pool task: state, result, exception
    a_i,
    b_i,
    significances,
    min_significance,
    significant,
    ret,               \* value returned by pdfdiff: "none", "True", "False"
    exc,               \* exception pending in or raised by pdfdiff
    runs,              \* history: pdftocairo invocations per task
    compared,          \* history: page ids imgdiff was called with
    reports,           \* history: every run of the compare tool
    slept              \* history: seconds spent in time.sleep

vars == <<isfile, doc, threshold, verbosity, time_to_inspect, num_threads, pc, tmpdir,
          files, future, a_i, b_i, significances, min_significance,
          significant, ret, exc, runs, compared, reports, slept>>

Thresholds == {Num(32), Num(100), INFINITY}

\* verbosity levels: pdfdiff and verbose_run read the level only to decide
\* whether to print (lines 91-94, 107, 112, 124, 131, 150)
Verbosities == {0, 1}

Init ==
    /\ isfile \in [Tasks -> BOOLEAN]
    /\ doc \in [Tasks -> Docs]
    /\ threshold \in Thresholds
    /\ verbosity \in Verbosities
    /\ time_to_inspect \in 0..MaxInspect
    /\ num_threads \in 1..MaxThreads
    /\ pc = "call"
    /\ tmpdir = "absent"
    /\ files = {}
    /\ future = [t \in Tasks |-> [state |-> "none", result |-> <<>>,
                                  exception |-> "none"]]
    /\ a_i = <<>>
    /\ b_i = <<>>
    /\ significances = <<>>
    /\ min_significance = NoValue
    /\ significant = FALSE
    /\ ret = "none"
    /\ exc = "none"
    /\ runs = [t \in Tasks |-> 0]
    /\ compared = <<>>
    /\ reports = <<>>
    /\ slept = 0

\* ------------------------------------------------------- leaving pdfdiff
\* variant: the directory is removed on the normal path only
TemporaryDirectoryExitNoFinally(raised) ==
    IF raised THEN "exists" ELSE "deleted"

\* TemporaryDirectory.__exit__: runs however the with block is left
TemporaryDirectoryExit(raised) == "deleted"

\* pdfdiff is left, with a return value or with an exception
Leave(r, e) ==
    /\ pc' = IF e = "none" THEN "done" ELSE "failed"
    /\ ret' = r
    /\ exc' = e
    /\ tmpdir' = TemporaryDirectoryExit(e # "none")
    /\ files' = IF tmpdir' = "deleted" THEN {} ELSE files

\* ---------------------------------------------------------- pool and tasks
Finished(t) == future[t].state \in {"done", "failed"}

Running == {t \in Tasks : future[t].state \in {"check", "run", "list"}}

\* variant: shutdown(wait=False)
ShutdownNoWait == TRUE

\* ThreadPoolExecutor.__exit__ is shutdown(wait=True): every submitted task
\* has run to its end
ShutdownDone == \A t \in Tasks : Finished(t)

\* variant: check=True left out
CheckFailsNever(returncode) == FALSE

\* check=True: subprocess.run raises CalledProcessError
CheckFails(returncode) == returncode # 0

\* lines 86-99: the two assertions, the temporary directory, the two submits
Call ==
    /\ pc = "call"
    /\ IF ~isfile["a"] \/ ~isfile["b"]
       THEN /\ pc' = "failed"
            /\ exc' = "AssertionError"
            /\ UNCHANGED <<tmpdir, future>>
       ELSE /\ pc' = "join_a"
            /\ tmpdir' = "exists"
            /\ future' = [t \in Tasks |-> [future[t] EXCEPT !.state = "queued"]]
            /\ UNCHANGED exc
    /\ UNCHANGED <<isfile, doc, threshold, verbosity, time_to_inspect, num_threads,
                   files, a_i, b_i, significances, min_significance,
                   significant, ret, runs, compared, reports, slept>>

TaskUnchanged ==
    UNCHANGED <<isfile, doc, threshold, verbosity, time_to_inspect, num_threads, pc,
                tmpdir, a_i, b_i, significances, min_significance,
                significant, ret, exc, compared, reports, slept>>

\* a pool worker takes the next task off the queue (a was submitted first)
TaskStart(t) ==
    /\ future[t].state = "queued"
    /\ t = "b" => future["a"].state # "queued"
    /\ Cardinality(Running) < num_threads
    /\ future' = [future EXCEPT ![t].state = "check"]
    /\ UNCHANGED <<files, runs>>
    /\ TaskUnchanged

\* pdftopng lines 22-33: the clean-destination test, then pdftocairo starts
TaskCheck(t) ==
    /\ future[t].state = "check"
    /\ IF GlobPrefix(files, Basename(t)) # {}
       THEN /\ future' = [future EXCEPT
                    ![t].state = "failed",
                    ![t].exception = "ValueError: destdir not clean"]
            /\ UNCHANGED runs
       ELSE /\ future' = [future EXCEPT ![t].state = "run"]
            /\ runs' = [runs EXCEPT ![t] = @ + 1]
    /\ UNCHANGED files
    /\ TaskUnchanged

\* pdftocairo writes one page file
TaskWrite(t) ==
    /\ future[t].state = "run"
    /\ \E id \in doc[t].ids :
        /\ PageFile(Basename(t), id) \notin files
        /\ files' = files \cup {PageFile(Basename(t), id)}
    /\ UNCHANGED <<future, runs>>
    /\ TaskUnchanged

\* pdftocairo exits; subprocess.run returns or raises (check=True)
TaskExit(t) ==
    /\ future[t].state = "run"
    /\ \A id \in doc[t].ids : PageFile(Basename(t), id) \in files
    /\ future' = IF CheckFails(doc[t].returncode)
                 THEN [future EXCEPT ![t].state = "failed",
                                     ![t].exception = "CalledProcessError"]
                 ELSE [future EXCEPT ![t].state = "list"]
    /\ UNCHANGED <<files, runs>>
    /\ TaskUnchanged

\* pdftopng lines 36-38
TaskList(t) ==
    /\ future[t].state = "list"
    /\ future' = [future EXCEPT
            ![t].state = "done",
            ![t].result = PdftopngResult(files, Basename(t))]
    /\ UNCHANGED <<files, runs>>
    /\ TaskUnchanged

\* ----------------------------------------------------------------- pdfdiff
Inputs == <<isfile, doc, threshold, verbosity, time_to_inspect, num_threads>>

\* line 102: a_i_.result() blocks until the task has ended, then returns its
\* value or raises its exception (which leaves the pool's with block)
JoinA ==
    /\ pc = "join_a"
    /\ Finished("a")
    /\ IF future["a"].state = "failed"
       THEN /\ exc' = future["a"].exception
            /\ pc' = "shutdown"
            /\ UNCHANGED a_i
       ELSE /\ a_i' = future["a"].result
            /\ pc' = "join_b"
            /\ UNCHANGED exc
    /\ UNCHANGED <<Inputs, tmpdir, files, future, b_i, significances,
                   min_significance, significant, ret, runs, compared,
                   reports, slept>>

\* line 103
JoinB ==
    /\ pc = "join_b"
    /\ Finished("b")
    /\ IF future["b"].state = "failed"
       THEN /\ exc' = future["b"].exception
            /\ UNCHANGED b_i
       ELSE /\ b_i' = future["b"].result
            /\ UNCHANGED exc
    /\ pc' = "shutdown"
    /\ UNCHANGED <<Inputs, tmpdir, files, future, a_i, significances,
                   min_significance, significant, ret, runs, compared,
                   reports, slept>>

\* line 97: the pool's with block is left, normally or by a task's exception
Shutdown ==
    /\ pc = "shutdown"
    /\ ShutdownDone
    /\ IF exc # "none"
       THEN Leave("none", exc)
       ELSE /\ pc' = "validate"
            /\ UNCHANGED <<tmpdir, files, ret, exc>>
    /\ UNCHANGED <<Inputs, future, a_i, b_i, significances,
                   min_significance, significant, runs, compared, reports,
                   slept>>

\* variant: compared pairwise along a_i, as zip() would
PagesDifferZip(x, y) ==
    \E i \in 1..Len(x) : i > Len(y) \/ x[i] # y[i]

\* a_i != b_i
PagesDiffer(x, y) == x # y

\* variant: the assertion of line 106 left out
LengthsDifferUnchecked(x, y) == TRUE

\* assert len(a_i) != len(b_i)
LengthsDiffer(x, y) == Len(x) # Len(y)

\* variant: the assertion of line 110 left out
NonEmptyUnchecked(x) == TRUE

\* assert len(a_i) > 0
NonEmpty(x) == Len(x) > 0

\* lines 105-115
Validate ==
    /\ pc = "validate"
    /\ IF PagesDiffer(a_i, b_i)
       THEN IF LengthsDiffer(a_i, b_i)
            THEN Leave("False", "none")
            ELSE Leave("none", "AssertionError")
       ELSE IF ~NonEmpty(a_i)
            THEN Leave("none", "AssertionError")
            ELSE /\ pc' = "compare"
                 /\ UNCHANGED <<tmpdir, files, ret, exc>>
    /\ significances' = <<>>
    /\ UNCHANGED <<Inputs, future, a_i, b_i, min_significance, significant,
                   runs, compared, reports, slept>>

\* variant: the pages taken from the end of the list
NextPageReversed(pages, n) == pages[Len(pages) - n]

\* for pageno in a_i: the page of the loop's turn after n turns
NextPage(pages, n) == pages[n + 1]

\* lines 117-127: one turn of the loop, imgdiff (lines 42-71) included
Compare ==
    /\ pc = "compare"
    /\ Len(significances) < Len(a_i)
    /\ LET pageno == NextPage(a_i, Len(significances))
           pageapath == PagePath("a", pageno)
           pagebpath == PagePath("b", pageno)
           diffpath == DiffPath(pageno)
           logpath == LogPath(pageno)
       IN  /\ compared' = Append(compared, pageno)
           /\ IF ~ImgdiffPre(files, pageapath, pagebpath, diffpath, logpath)
              THEN /\ Leave("none", "AssertionError")
                   /\ UNCHANGED <<significances, reports>>
              ELSE \E returncode \in Returncodes, lines \in Logs,
                      wrote \in BOOLEAN :
                     LET s == ImgdiffParse(returncode, lines)
                     IN  /\ reports' = Append(reports,
                                        [pageno |-> pageno,
                                         returncode |-> returncode,
                                         lines |-> lines,
                                         result |-> s])
                         /\ IF s.exc # "none"
                            THEN /\ Leave("none", s.exc)
                                 /\ UNCHANGED significances
                            ELSE /\ significances' = Append(significances, s.val)
                                 /\ files' = files \cup {logpath} \cup
                                        (IF wrote THEN {diffpath} ELSE {})
                                 /\ UNCHANGED <<pc, tmpdir, ret, exc>>
    /\ UNCHANGED <<Inputs, future, a_i, b_i, min_significance, significant,
                   runs, slept>>

\* variant: min_significance < threshold
SignificantStrict(m, th) == FloatLeq(m, th) /\ m # th

\* variant: the comparison turned round
SignificantInverted(m, th) == FloatLeq(th, m)

\* min_significance <= threshold
Significant(m, th) == FloatLeq(m, th)

\* lines 129-135
Reduce ==
    /\ pc = "compare"
    /\ Len(significances) = Len(a_i)
    /\ min_significance' = Min(significances)
    /\ significant' = Significant(min_significance', threshold)
    /\ pc' = "inspect"
    /\ UNCHANGED <<Inputs, tmpdir, files, future, a_i, b_i, significances,
                   ret, exc, runs, compared, reports, slept>>

\* variant: the pause left out
SleepSecondsNone(t) == 0

\* if time_to_inspect > 0: time.sleep(time_to_inspect)
SleepSeconds(t) == IF t > 0 THEN t ELSE 0

\* lines 137-145
Inspect ==
    /\ pc = "inspect"
    /\ slept' = slept + SleepSeconds(time_to_inspect)
    /\ pc' = "return"
    /\ UNCHANGED <<Inputs, tmpdir, files, future, a_i, b_i, significances,
                   min_significance, significant, ret, exc, runs, compared,
                   reports>>

\* line 147
ReturnVerdict ==
    /\ pc = "return"
    /\ Leave(IF significant THEN "False" ELSE "True", "none")
    /\ UNCHANGED <<Inputs, future, a_i, b_i, significances, min_significance,
                   significant, runs, compared, reports, slept>>

Next ==
    \/ Call
    \/ \E t \in Tasks : TaskStart(t)
    \/ \E t \in Tasks : TaskCheck(t)
    \/ \E t \in Tasks : TaskWrite(t)
    \/ \E t \in Tasks : TaskExit(t)
    \/ \E t \in Tasks : TaskList(t)
    \/ JoinA
    \/ JoinB
    \/ Shutdown
    \/ Validate
    \/ Compare
    \/ Reduce
    \/ Inspect
    \/ ReturnVerdict

Spec == Init /\ [][Next]_vars

\* ------------------------------------------------- pdftopng called alone
\* Files a destination directory may hold before pdftopng is called:
\* a-1.png, a-1.txt, b-2.png, diff-1.png
StaleFiles ==
    { PageFile(<<"a">>, <<"1">>),
      <<"a", "-", "1">> \o TXT,
      PageFile(<<"b">>, <<"2">>),
      DiffPath(<<"1">>) }

\* one call pdftopng(sourcepath, destdir, basename, ...) on any directory
InitPdftopng ==
    /\ isfile = [t \in Tasks |-> TRUE]
    /\ \E d \in Docs : doc = [t \in Tasks |-> d]
    /\ threshold = INFINITY
    /\ verbosity \in Verbosities
    /\ time_to_inspect = 0
    /\ num_threads = 1
    /\ pc = "pdftopng"
    /\ tmpdir = "exists"
    /\ files \in SUBSET StaleFiles
    /\ \E t \in Tasks :
          future = [u \in Tasks |->
                      [state |-> IF u = t THEN "check" ELSE "none",
                       result |-> <<>>, exception |-> "none"]]
    /\ a_i = <<>>
    /\ b_i = <<>>
    /\ significances = <<>>
    /\ min_significance = NoValue
    /\ significant = FALSE
    /\ ret = "none"
    /\ exc = "none"
    /\ runs = [t \in Tasks |-> 0]
    /\ compared = <<>>
    /\ reports = <<>>
    /\ slept = 0

NextPdftopng ==
    \/ \E t \in Tasks : TaskCheck(t)
    \/ \E t \in Tasks : TaskWrite(t)
    \/ \E t \in Tasks : TaskExit(t)
    \/ \E t \in Tasks : TaskList(t)

SpecPdftopng == InitPdftopng /\ [][NextPdftopng]_vars

\* ============================================================= properties
\* a run of pdfdiff that went through the loop and returned a verdict
RunCompared ==
    /\ pc = "done"
    /\ a_i = b_i
    /\ a_i # <<>>
    /\ Len(significances) = Len(a_i)

\* C1: when both documents give the same non-empty page list and every page
\* comparison returns a score, the verdict is True exactly when the least of
\* the scores is strictly greater than the threshold; a least score equal to
\* the threshold gives False.
C1_VerdictIffMinAboveThreshold ==
    RunCompared =>
        LET S == CHOOSE x \in {significances[i] : i \in DOMAIN significances} :
                    \A i \in DOMAIN significances :
                        \/ significances[i].inf
                        \/ ~x.inf /\ x.v <= significances[i].v
            above == /\ ~threshold.inf
                     /\ S.inf \/ S.v > threshold.v
        IN  /\ ret \in {"True", "False"}
            /\ ret = "True" <=> above
            /\ S = threshold => ret = "False"
            /\ min_significance = S

C1_Witness ==
    /\ RunCompared
    /\ Len(a_i) = 2
    /\ significances = <<Num(100), Num(32)>>
    /\ threshold = Num(32)
    /\ ret = "False"

\* C2: when the two page lists differ in length, pdfdiff returns False
\* whatever the threshold, and imgdiff is not called at any point of the run.
C2_LengthMismatchIsFalse ==
    ( /\ future["a"].state = "done"
      /\ future["b"].state = "done"
      /\ Len(future["a"].result) # Len(future["b"].result) )
    => /\ compared = <<>>
       /\ reports = <<>>
       /\ pc \in {"join_a", "join_b", "shutdown", "validate", "done"}
       /\ pc = "done" => ret = "False" /\ exc = "none"

C2_Witness ==
    /\ pc = "done"
    /\ Len(a_i) = 2
    /\ Len(b_i) = 3
    /\ ret = "False"
    /\ compared = <<>>

\* C3: a run of pdfdiff that has ended, by a return or by an exception, has
\* left no temporary directory behind: if one was created it is deleted,
\* with everything in it.
C3_WorkspaceDeleted ==
    pc \in {"done", "failed"} =>
        /\ files = {}
        /\ \/ tmpdir = "deleted"
           \/ tmpdir = "absent" /\ ~(isfile["a"] /\ isfile["b"])

C3_Witness ==
    /\ pc = "failed"
    /\ exc = "ValueError: image widths or heights differ"
    /\ Len(reports) = 2
    /\ tmpdir = "deleted"
    /\ files = {}

\* C4: when the compare tool crashes (status > 1) or reports differing
\* dimensions on page k, the run has ended with that failure and without a
\* verdict: exactly the first k pages were handed to imgdiff, the failing
\* page contributed no score, and the loop was not completed.
C4_ComparatorFailureAborts ==
    \A k \in DOMAIN reports :
        LET r == reports[k]
        IN  ( \/ r.returncode > 1
              \/ r.lines \in {<<LineMismatch>>,
                              <<LineMismatch, LineRed, LineAllLow>>} )
            => /\ pc = "failed"
               /\ ret = "none"
               /\ exc = IF r.returncode > 1
                        THEN "ValueError: compare crashed"
                        ELSE "ValueError: image widths or heights differ"
               /\ k = Len(reports)
               /\ compared = SubSeq(a_i, 1, k)
               /\ Len(significances) = k - 1
               /\ Len(significances) < Len(a_i)

C4_Witness ==
    /\ pc = "failed"
    /\ Len(a_i) = 3
    /\ Len(reports) = 2
    /\ reports[2].returncode = 1
    /\ reports[2].lines = <<LineMismatch, LineRed, LineAllLow>>
    /\ exc = "ValueError: image widths or heights differ"

\* C5: a document with at least one page compared with itself, the
\* rasterizer giving the same files for both and the compare tool reporting
\* "all: 0" with status 0 for every page, never fails, and ends with the
\* least similarity INFINITY and the verdict True for every finite threshold.
C5_SelfComparisonEquivalent ==
    ( /\ isfile["a"] /\ isfile["b"]
      /\ doc["a"] = doc["b"]
      /\ doc["a"].ids # {}
      /\ doc["a"].returncode = 0
      /\ \A k \in DOMAIN reports :
            /\ reports[k].returncode = 0
            /\ reports[k].lines = <<LineRed, LineAllZero>> )
    => /\ pc # "failed"
       /\ pc \in {"inspect", "return", "done"} =>
            /\ min_significance = INFINITY
            /\ Len(significances) = Cardinality(doc["a"].ids)
       /\ pc = "done" =>
            /\ ~threshold.inf => ret = "True"
            /\ ret \in {"True", "False"}

C5_Witness ==
    /\ pc = "done"
    /\ doc["a"] = doc["b"]
    /\ Len(reports) = 3
    /\ \A k \in DOMAIN reports :
            /\ reports[k].returncode = 0
            /\ reports[k].lines = <<LineRed, LineAllZero>>
    /\ threshold = Num(100)
    /\ min_significance = INFINITY
    /\ ret = "True"

\* C6: when the compare tool ended with status 0 or 1 and its log has no
\* mismatch line and exactly one line beginning with "    all: ", imgdiff
\* returns INFINITY, and not the number zero, if the rest of the line is
\* "0", and otherwise the number the rest of the line spells ("0.0" is zero,
\* "3.2", "10", "inf").
C6_ZeroTokenIsInfinity ==
    \A k \in DOMAIN reports :
        LET r == reports[k]
        IN  r.returncode \in {0, 1} =>
              /\ r.lines = <<LineRed, LineAllZero>> =>
                    /\ r.result = [exc |-> "none", val |-> INFINITY]
                    /\ r.result.val # Num(0)
              /\ r.lines = <<LineRed, LineAllZeroDot>> =>
                    r.result = [exc |-> "none", val |-> Num(0)]
              /\ r.lines = <<LineRed, LineAllLow>> =>
                    r.result = [exc |-> "none", val |-> Num(32)]
              /\ r.lines = <<LineRed, LineAllHigh>> =>
                    r.result = [exc |-> "none", val |-> Num(100)]
              /\ r.lines = <<LineRed, LineAllInf>> =>
                    r.result = [exc |-> "none", val |-> INFINITY]
              /\ (r.result.exc = "none" /\ k <= Len(significances)) =>
                    significances[k] = r.result.val

C6_Witness ==
    /\ Len(reports) = 2
    /\ reports[1].lines = <<LineRed, LineAllZeroDot>>
    /\ reports[2].lines = <<LineRed, LineAllZero>>
    /\ reports[2].returncode = 1
    /\ significances = <<Num(0), INFINITY>>

\* C7: imgdiff raises the "compare crashed" error exactly when the status of
\* the compare tool is greater than 1; with status 0 or 1 and a log holding
\* one well-formed "all" line it returns a score.
C7_CrashIffStatusAboveOne ==
    \A k \in DOMAIN reports :
        LET r == reports[k]
        IN  /\ r.result.exc = "ValueError: compare crashed"
                <=> r.returncode > 1
            /\ (r.returncode \in {0, 1} /\ r.lines \in ScoreLogs) =>
                    r.result.exc = "none"
            /\ r.returncode > 1 =>
                    /\ pc = "failed"
                    /\ exc = "ValueError: compare crashed"

C7_Witness ==
    /\ Len(reports) = 1
    /\ reports[1].returncode = 1
    /\ reports[1].lines = <<LineRed, LineAllLow>>
    /\ reports[1].result.exc = "none"
    /\ significances = <<Num(32)>>
    /\ pc = "compare"

\* C8: the page lists are validated, pages are compared and a failure of a
\* rasterization task is reported only when both tasks have ended, whatever
\* the interleaving of the tasks and the number of workers.
C8_JoinBeforeAnythingElse ==
    LET ended == \A t \in Tasks : future[t].state \in {"done", "failed"}
        okay  == \A t \in Tasks : future[t].state = "done"
    IN  /\ pc \in {"validate", "compare", "inspect", "return", "done"} => okay
        /\ compared # <<>> => okay
        /\ (pc = "failed" /\ tmpdir # "absent") => ended

C8_Witness ==
    /\ pc = "shutdown"
    /\ num_threads = 2
    /\ future["a"].state = "failed"
    /\ exc = "CalledProcessError"
    /\ future["b"].state = "run"
    /\ tmpdir = "exists"

\* C9: when pdftocairo exits with a non-zero status for either document,
\* the run returns no verdict, imgdiff is never called, pdftocairo is run at
\* most once per document, and the run can only end by raising the
\* CalledProcessError.
C9_RasterizerFailureAborts ==
    ( /\ isfile["a"] /\ isfile["b"]
      /\ \E t \in Tasks : doc[t].returncode # 0 )
    => /\ ret = "none"
       /\ compared = <<>>
       /\ \A t \in Tasks : runs[t] <= 1
       /\ pc \in {"call", "join_a", "join_b", "shutdown", "failed"}
       /\ pc = "failed" => exc = "CalledProcessError"
       /\ pc = "failed" \/ ENABLED Next

C9_Witness ==
    /\ pc = "failed"
    /\ exc = "CalledProcessError"
    /\ doc["a"].returncode = 0
    /\ doc["b"].returncode = 1
    /\ runs = [t \in Tasks |-> 1]
    /\ ret = "none"

\* C10: a pdftopng call that succeeded returns one page id per file
\* "<basename>-<id>.png" pdftocairo wrote, the id being the file name without
\* basename, separator and ".png", in the string order of the file names:
\* "1" before "10" before "2".
C10_PageIdsInStringOrder ==
    \A t \in Tasks :
        future[t].state = "done" =>
            LET r == future[t].result
                before(x, y) ==
                    \A i, j \in DOMAIN r : (r[i] = x /\ r[j] = y) => i < j
            IN  /\ Len(r) = Cardinality(doc[t].ids)
                /\ {r[i] : i \in DOMAIN r} = doc[t].ids
                /\ before(<<"1", "0">>, <<"2">>)
                /\ before(<<"1">>, <<"1", "0">>)
                /\ before(<<"1">>, <<"2">>)

C10_Witness ==
    /\ future["a"].state = "done"
    /\ future["a"].result = << <<"1">>, <<"1", "0">>, <<"2">> >>
    /\ future["b"].state = "done"
    /\ future["b"].result = << <<"1", "0">>, <<"2">> >>

\* C11: a pdftopng call on a directory holding a file whose name starts
\* with the basename fails with "destdir not clean" before pdftocairo is
\* run and leaves the directory as it was; on a directory holding no such
\* file that error is not raised and pdftocairo is run.
C11_DirtyDestinationRefused ==
    /\ [](\A t \in Tasks :
            /\ future[t].exception = "ValueError: destdir not clean" =>
                  /\ future[t].state = "failed"
                  /\ runs[t] = 0
                  /\ \E f \in files : f[1] = t
                  /\ files \subseteq StaleFiles
            /\ runs[t] > 0 =>
                  future[t].exception # "ValueError: destdir not clean")
    /\ [][\A t \in Tasks :
            future[t].state = "check" =>
                IF \E f \in files : f[1] = t
                THEN /\ future'[t].state = "failed"
                     /\ future'[t].exception = "ValueError: destdir not clean"
                     /\ files' = files
                     /\ runs'[t] = 0
                ELSE /\ future'[t].state = "run"
                     /\ future'[t].exception = "none"
                     /\ runs'[t] = 1]_vars

C11_Witness ==
    /\ pc = "pdftopng"
    /\ future["a"].state = "failed"
    /\ future["a"].exception = "ValueError: destdir not clean"
    /\ files = {<<"a", "-", "1">> \o TXT, PageFile(<<"b">>, <<"2">>)}
    /\ runs["a"] = 0

\* C12: when the two page lists have the same length and differ in content,
\* pdfdiff stops on the assertion of line 106 and returns nothing; the
\* verdict False without any page compared is returned only for lists of
\* different lengths.
C12_EqualLengthMismatchAsserts ==
    /\ ( /\ future["a"].state = "done"
         /\ future["b"].state = "done"
         /\ future["a"].result # future["b"].result
         /\ Len(future["a"].result) = Len(future["b"].result) )
       => /\ ret = "none"
          /\ compared = <<>>
          /\ pc \in {"join_a", "join_b", "shutdown", "validate", "failed"}
          /\ pc = "failed" => exc = "AssertionError"
    /\ (pc = "done" /\ compared = <<>>) =>
          /\ ret = "False"
          /\ Len(a_i) # Len(b_i)

C12_Witness ==
    /\ pc = "failed"
    /\ exc = "AssertionError"
    /\ a_i = << <<"1">>, <<"1", "0">> >>
    /\ b_i = << <<"1">>, <<"2">> >>
    /\ ret = "none"

\* C13: imgdiff decides in a fixed order.  A status above 1 gives the crash
\* error whatever the log holds; otherwise a log with the mismatch message
\* gives the dimension error, with or without an "all" line; otherwise a log
\* with no or with two "all" lines fails the assertion; a score is returned
\* only for status 0 or 1 and a log with exactly one "all" line.
C13_ImgdiffPrecedence ==
    \A k \in DOMAIN reports :
        LET r == reports[k]
        IN  /\ r.returncode > 1 =>
                  r.result.exc = "ValueError: compare crashed"
            /\ ( /\ r.returncode <= 1
                 /\ r.lines \in {<<LineMismatch>>,
                                 <<LineMismatch, LineRed, LineAllLow>>} )
               => r.result.exc = "ValueError: image widths or heights differ"
            /\ ( /\ r.returncode <= 1
                 /\ r.lines \in {<<>>, <<LineRed>>,
                                 <<LineAllZero, LineAllLow>>} )
               => r.result.exc = "AssertionError"
            /\ r.result.exc = "none" =>
                  /\ r.returncode <= 1
                  /\ r.lines \in ScoreLogs

C13_Witness ==
    /\ Len(reports) = 2
    /\ reports[1].returncode = 1
    /\ reports[1].result.exc = "none"
    /\ reports[2].returncode = 2
    /\ reports[2].lines = <<LineMismatch, LineRed, LineAllLow>>
    /\ reports[2].result.exc = "ValueError: compare crashed"
    /\ exc = "ValueError: compare crashed"

\* C14: imgdiff is called for the pages of a_i in the order of the list, one
\* call per page and none twice; when the loop has ended every page has been
\* compared once and there is one score per page.
C14_OncePerPageInOrder ==
    /\ compared = SubSeq(a_i, 1, Len(compared))
    /\ \A i, j \in DOMAIN compared : i # j => compared[i] # compared[j]
    /\ Len(reports) <= Len(compared)
    /\ \A k \in DOMAIN reports : reports[k].pageno = compared[k]
    /\ (pc \in {"inspect", "return"} \/ (pc = "done" /\ compared # <<>>)) =>
          /\ compared = a_i
          /\ Len(significances) = Len(a_i)
          /\ Len(reports) = Len(a_i)

C14_Witness ==
    /\ pc = "inspect"
    /\ compared = << <<"1">>, <<"1", "0">>, <<"2">> >>
    /\ Len(significances) = 3

\* C15 as stated: every run with a positive time_to_inspect that returns a
\* verdict, the False of a page-count mismatch included, has slept for that
\* time before returning.
C15_PauseBeforeEveryVerdict ==
    (pc = "done" /\ ret \in {"True", "False"} /\ time_to_inspect > 0) =>
        slept = time_to_inspect

\* C15, amended: a run that went through the loop and the reduction sleeps
\* for time_to_inspect, when that is positive, after significant is set and
\* while the temporary directory still exists; the False of a page-count
\* mismatch is returned without a pause, as is every failure; with
\* time_to_inspect = 0 there is no pause.
C15_PauseAfterReductionOnly ==
    /\ pc = "return" =>
          /\ slept = time_to_inspect
          /\ tmpdir = "exists"
          /\ Len(significances) = Len(a_i)
    /\ (pc = "done" /\ compared # <<>>) => slept = time_to_inspect
    /\ (pc = "done" /\ compared = <<>>) => slept = 0
    /\ pc \notin {"return", "done"} => slept = 0
    /\ time_to_inspect = 0 => slept = 0

C15_Witness ==
    /\ pc = "return"
    /\ time_to_inspect = 1
    /\ slept = 1
    /\ tmpdir = "exists"
    /\ files # {}

\* C16: two documents that both give no page at all stop pdfdiff on the
\* assertion of line 110, without a verdict; so the reduction is only ever
\* applied to a non-empty list of scores, although min() has INFINITY as its
\* value for the empty list.
C16_NoPagesAsserts ==
    /\ Min(<<>>) = [inf |-> TRUE, v |-> 0]
    /\ ( /\ future["a"].state = "done"
         /\ future["b"].state = "done"
         /\ future["a"].result = <<>>
         /\ future["b"].result = <<>> )
       => /\ ret = "none"
          /\ pc \in {"join_a", "join_b", "shutdown", "validate", "failed"}
          /\ pc = "failed" => exc = "AssertionError"
    /\ pc \in {"compare", "inspect", "return"} => a_i # <<>>
    /\ pc \in {"inspect", "return"} => significances # <<>>
    /\ (pc = "done" /\ ret = "True") => significances # <<>>

C16_Witness ==
    /\ pc = "failed"
    /\ exc = "AssertionError"
    /\ future["a"].state = "done"
    /\ future["b"].state = "done"
    /\ a_i = <<>>
    /\ b_i = <<>>
    /\ ret = "none"

\* C17: inside pdfdiff the two pdftopng tasks do not disturb each other,
\* however their steps interleave: neither fails with "destdir not clean",
\* and the list a task returns holds the ids of its own document's files
\* only, in the order it has when the task runs alone.
C17_TasksDoNotInterfere ==
    \A t \in Tasks :
        /\ future[t].exception # "ValueError: destdir not clean"
        /\ future[t].state = "failed" =>
              /\ future[t].exception = "CalledProcessError"
              /\ doc[t].returncode # 0
        /\ future[t].state = "done" =>
              LET r == future[t].result
                  pos(id) == Cardinality({x \in doc[t].ids :
                                 \/ x = id
                                 \/ x = <<"1">>
                                 \/ x = <<"1", "0">> /\ id = <<"2">>})
              IN  /\ Len(r) = Cardinality(doc[t].ids)
                  /\ \A id \in doc[t].ids : r[pos(id)] = id

C17_Witness ==
    /\ num_threads = 2
    /\ future["a"].state = "list"
    /\ future["b"].state = "done"
    /\ future["b"].result = << <<"1", "0">>, <<"2">> >>
    /\ PageFile(<<"a">>, <<"1">>) \in files
    /\ PageFile(<<"b">>, <<"2">>) \in files
    /\ runs = [t \in Tasks |-> 1]

\* C18: each time pdfdiff is about to call imgdiff for a page, a-<id>.png and
\* b-<id>.png are in the temporary directory and diff-<id>.png and
\* log-<id>.txt are not, so none of the four assertions of imgdiff fails:
\* every imgdiff call gets as far as running the compare tool.
C18_ImgdiffPreconditionsHold ==
    /\ (pc = "compare" /\ Len(significances) < Len(a_i)) =>
          LET id == a_i[Len(significances) + 1]
          IN  /\ (<<"a", "-">> \o id \o <<".", "p", "n", "g">>) \in files
              /\ (<<"b", "-">> \o id \o <<".", "p", "n", "g">>) \in files
              /\ (<<"d", "i", "f", "f", "-">> \o id \o <<".", "p", "n", "g">>)
                    \notin files
              /\ (<<"l", "o", "g", "-">> \o id \o <<".", "t", "x", "t">>)
                    \notin files
    /\ Len(reports) = Len(compared)

C18_Witness ==
    /\ pc = "compare"
    /\ Len(a_i) = 3
    /\ Len(significances) = 2
    /\ DiffPath(a_i[1]) \in files
    /\ LogPath(a_i[2]) \in files
    /\ DiffPath(a_i[3]) \notin files

\* C19: how a run of pdfdiff ends is fixed by the two documents' page files
\* and pdftocairo statuses, the results of the page comparisons and the
\* threshold: a rasterizer failure gives CalledProcessError, otherwise lists
\* of different lengths give False, otherwise unequal or empty lists give
\* AssertionError, otherwise the first failing comparison gives its
\* exception, otherwise the verdict is False exactly when some score is at
\* most the threshold.  The interleaving of the tasks, num_threads, verbosity
\* and time_to_inspect have no part in it.
C19_OutcomeDeterminedByInputs ==
    pc \in {"done", "failed"} =>
        LET n(t) == Cardinality(doc[t].ids)
            low(x) == \/ threshold.inf
                      \/ ~x.inf /\ x.v <= threshold.v
            outcome == <<pc, ret, exc>>
        IN  IF ~(isfile["a"] /\ isfile["b"])
            THEN outcome = <<"failed", "none", "AssertionError">>
            ELSE IF \E t \in Tasks : doc[t].returncode # 0
            THEN outcome = <<"failed", "none", "CalledProcessError">>
            ELSE IF n("a") # n("b")
            THEN outcome = <<"done", "False", "none">>
            ELSE IF doc["a"].ids # doc["b"].ids \/ doc["a"].ids = {}
            THEN outcome = <<"failed", "none", "AssertionError">>
            ELSE IF \E k \in DOMAIN reports : reports[k].result.exc # "none"
            THEN outcome = <<"failed", "none",
                             reports[Len(reports)].result.exc>>
            ELSE /\ Len(reports) = n("a")
                 /\ outcome =
                      <<"done",
                        IF \E k \in DOMAIN reports : low(reports[k].result.val)
                        THEN "False" ELSE "True",
                        "none">>

C19_Witness ==
    /\ pc = "done"
    /\ ret = "True"
    /\ num_threads = 1
    /\ verbosity = 1
    /\ time_to_inspect = 1
    /\ threshold = Num(32)
    /\ Len(reports) = 2
    /\ reports[1].result.val = Num(100)
    /\ reports[2].result.val = INFINITY

====
